---------------------------- MODULE Spec2Model ----------------------------
(***************************************************************************)
(* golangci-lint-langserver: the lint orchestration pipeline of            *)
(* src/handler.go.  Two threads of control: the event thread, which runs   *)
(* the protocol handlers one after the other (src/main.go), and the        *)
(* worker goroutine handler.linter, which receives document URIs from the  *)
(* channel h.request, runs the external process and publishes the          *)
(* diagnostics.                                                            *)
(*                                                                         *)
(* A Go string is a sequence of tokens (characters for paths and severity  *)
(* names, whole words for free text); "" is <<>>.                          *)
(***************************************************************************)
EXTENDS Integers, Sequences, FiniteSets, TLC

\* ---------------------------------------------------------------- bounds
\* Number of document notifications the client sends in one run.
MaxRequests == 2

\* Tokens of standard output the external process writes.
MaxOut == 3

\* capacity of h.request: make(chan protocol.DocumentURI)
RequestCap == 0

\* ---------------------------------------------------------------- strings
FileScheme == "file://"

\* uri.File / uri.New of a file path
FileURI(path) == <<FileScheme>> \o path

\* URI.Filename(): the path of a file URI
Filename(u) == Tail(u)

HasPrefix(s, prefix) ==
    /\ Len(prefix) <= Len(s)
    /\ SubSeq(s, 1, Len(prefix)) = prefix

\* index of the last "/" of path, 0 when there is none
LastSlash(path) ==
    LET idx == {i \in 1..Len(path) : path[i] = "/"}
    IN  IF idx = {} THEN 0 ELSE CHOOSE i \in idx : \A j \in idx : j <= i

\* filepath.Split: dir keeps the trailing separator
SplitDir(path) == SubSeq(path, 1, LastSlash(path))
SplitFile(path) == SubSeq(path, LastSlash(path) + 1, Len(path))

UpperLetters ==
    <<"A", "B", "C", "D", "E", "F", "G", "H", "I", "J", "K", "L", "M",
      "N", "O", "P", "Q", "R", "S", "T", "U", "V", "W", "X", "Y", "Z">>
LowerLetters ==
    <<"a", "b", "c", "d", "e", "f", "g", "h", "i", "j", "k", "l", "m",
      "n", "o", "p", "q", "r", "s", "t", "u", "v", "w", "x", "y", "z">>

\* unicode.ToLower on a character of the ASCII range
LowerChar(c) ==
    IF \E i \in 1..Len(UpperLetters) : UpperLetters[i] = c
    THEN LowerLetters[CHOOSE i \in 1..Len(UpperLetters) : UpperLetters[i] = c]
    ELSE c

\* strings.ToLower
ToLower(s) == [i \in 1..Len(s) |-> LowerChar(s[i])]


\* ---------------------------------------------------------------- integers
\* An int of the program is 64 bits wide and a uint32 is 32 bits wide. An int
\* is kept as its high 32 bits (a signed number) and its low 32 bits, and a
\* uint32 as two halves of 16 bits, so every operation keeps its width.
Half == 65536
MaxInt32 == 2147483647
MinInt32 == (-MaxInt32) - 1

Uint32(h, l) == [h |-> h, l |-> l]
Int64(hi, lo) == [hi |-> hi, lo |-> lo]

\* the int and the uint32 of value n, for n in 0..Half-1
Small(n) == Int64(0, Uint32(0, n))
Small32(n) == Uint32(0, n)

\* v - 1 on int: the smallest int wraps to the largest
Pred(v) ==
    IF v.lo.l > 0 THEN Int64(v.hi, Uint32(v.lo.h, v.lo.l - 1))
    ELSE IF v.lo.h > 0 THEN Int64(v.hi, Uint32(v.lo.h - 1, Half - 1))
    ELSE Int64(IF v.hi = MinInt32 THEN MaxInt32 ELSE v.hi - 1,
             Uint32(Half - 1, Half - 1))

\* max(v, 0) on int
Max0(v) == IF v.hi < 0 THEN Small(0) ELSE v

\* the conversion uint32(v) of an int: its low 32 bits
ToUint32(v) == v.lo

\* ---------------------------------------------------------------- values
\* protocol.DiagnosticSeverity
ErrorDiagnosticSeverity == 1
WarningDiagnosticSeverity == 2
InformationDiagnosticSeverity == 3
HintDiagnosticSeverity == 4

Position(line, character) == [Line |-> line, Character |-> character]
Range(start, end) == [Start |-> start, End |-> end]

\* the zero value of protocol.Range
ZeroRange == Range(Position(Small32(0), Small32(0)), Position(Small32(0), Small32(0)))

Diagnostic(range, severity, source, message) ==
    [Range |-> range, Severity |-> severity, Source |-> source, Message |-> message]

\* type Issue: the fields the pipeline reads
Issue(linter, text, severity, filename, line, column) ==
    [FromLinter |-> linter, Text |-> text, Severity |-> severity,
     Pos |-> [Filename |-> filename, Line |-> line, Column |-> column]]

\* type Result
Result(issues) == [Issues |-> issues]

\* error values: the nil error, *exec.ExitError (non-zero exit, with the
\* captured standard error), *exec.Error (the process did not start) and the
\* decoder's error
NilError == [kind |-> "nil", Stderr |-> <<>>, text |-> <<>>]
ExitError(stderr) == [kind |-> "ExitError", Stderr |-> stderr, text |-> <<"exit status 2">>]
ExecError == [kind |-> "Error", Stderr |-> <<>>, text |-> <<"exec: executable file not found">>]
DecodeError == [kind |-> "SyntaxError", Stderr |-> <<>>, text |-> <<"invalid JSON">>]

\* the outcome of a call that may panic
Returns(diagnostics) == [panics |-> FALSE, diagnostics |-> diagnostics]
Panics == [panics |-> TRUE, diagnostics |-> <<>>]

\* errToDiagnostics that takes e.Error() for every error, also for an
\* *exec.ExitError
errToDiagnosticsErrorText(err) ==
    IF err.kind = "nil"
    THEN Panics
    ELSE Returns(<<Diagnostic(ZeroRange, ErrorDiagnosticSeverity, <<>>, err.text)>>)

\* ---------------------------------------------------------------- pure functions
\* handler.errToDiagnostics: err.(type) of a nil interface takes the default
\* branch, and e.Error() on it is a nil dereference
errToDiagnostics(err) ==
    IF err.kind = "ExitError"
    THEN Returns(<<Diagnostic(ZeroRange, ErrorDiagnosticSeverity, <<>>, err.Stderr)>>)
    ELSE IF err.kind = "nil"
         THEN Panics
         ELSE Returns(<<Diagnostic(ZeroRange, ErrorDiagnosticSeverity, <<>>, err.text)>>)

sError == <<"e", "r", "r", "o", "r">>
sWarning == <<"w", "a", "r", "n", "i", "n", "g">>
sInformation == <<"i", "n", "f", "o", "r", "m", "a", "t", "i", "o", "n">>
sHint == <<"h", "i", "n", "t">>

\* SeverityFromString that compares the string as it is, without ToLower
SeverityFromStringCaseSensitive(severity) ==
    IF severity = sError THEN ErrorDiagnosticSeverity
    ELSE IF severity = sWarning THEN WarningDiagnosticSeverity
    ELSE IF severity = sInformation THEN InformationDiagnosticSeverity
    ELSE IF severity = sHint THEN HintDiagnosticSeverity
    ELSE WarningDiagnosticSeverity

\* handler.SeverityFromString
SeverityFromString(severity) ==
    LET s == ToLower(severity)
    IN  IF s = sError THEN ErrorDiagnosticSeverity
        ELSE IF s = sWarning THEN WarningDiagnosticSeverity
        ELSE IF s = sInformation THEN InformationDiagnosticSeverity
        ELSE IF s = sHint THEN HintDiagnosticSeverity
        ELSE WarningDiagnosticSeverity

\* diagnosticMessage that always puts the linter's name before the text
diagnosticMessagePrefixed(noName, issue) ==
    issue.FromLinter \o <<": ">> \o issue.Text

\* handler.diagnosticMessage
diagnosticMessage(noName, issue) ==
    IF noName THEN issue.Text
    ELSE issue.FromLinter \o <<": ">> \o issue.Text

\* uint32(max(int(v-1), 0))
Translate(v) == ToUint32(Max0(Pred(v)))

\* the loop body of handler.lint for one issue that passed the filter
ToDiagnostic(noName, issue) ==
    Diagnostic(
        Range(Position(Translate(issue.Pos.Line), Translate(issue.Pos.Column)),
              Position(Translate(issue.Pos.Line), Translate(issue.Pos.Column))),
        SeverityFromString(issue.Severity),
        issue.FromLinter,
        diagnosticMessage(noName, issue))

RECURSIVE MapIssuesNoFilter(_, _, _)
\* MapIssues without the comparison of file and issue.Pos.Filename
MapIssuesNoFilter(noName, file, issues) ==
    IF issues = <<>> THEN <<>>
    ELSE <<ToDiagnostic(noName, Head(issues))>>
         \o MapIssuesNoFilter(noName, file, Tail(issues))

RECURSIVE MapIssuesReversed(_, _, _)
\* MapIssues that puts each diagnostic before the ones already collected
MapIssuesReversed(noName, file, issues) ==
    IF issues = <<>> THEN <<>>
    ELSE IF file # Head(issues).Pos.Filename
         THEN MapIssuesReversed(noName, file, Tail(issues))
         ELSE MapIssuesReversed(noName, file, Tail(issues))
              \o <<ToDiagnostic(noName, Head(issues))>>

RECURSIVE MapIssues(_, _, _)
\* the for loop of handler.lint over result.Issues
MapIssues(noName, file, issues) ==
    IF issues = <<>> THEN <<>>
    ELSE IF file # Head(issues).Pos.Filename
         THEN MapIssues(noName, file, Tail(issues))
         ELSE <<ToDiagnostic(noName, Head(issues))>> \o MapIssues(noName, file, Tail(issues))

\* tokens of the captured standard output
NL == [t |-> "nl", v |-> Result(<<>>)]
Text == [t |-> "text", v |-> Result(<<>>)]
JSON(result) == [t |-> "json", v |-> result]

RECURSIVE Split(_)
\* bytes.Split(b, "\n")
Split(b) ==
    LET idx == {i \in 1..Len(b) : b[i] = NL}
    IN  IF idx = {} THEN <<b>>
        ELSE LET i == CHOOSE k \in idx : \A j \in idx : k <= j
             IN  <<SubSeq(b, 1, i - 1)>> \o Split(SubSeq(b, i + 1, Len(b)))

\* sonic.ConfigFastest.Unmarshal(data, &result): a segment decodes when it is
\* one JSON object and nothing else
Unmarshal(data) ==
    IF Len(data) = 1 /\ data[1].t = "json"
    THEN [err |-> NilError, result |-> data[1].v]
    ELSE [err |-> DecodeError, result |-> Result(<<>>)]

\* lintOutput that decodes the whole output instead of its first line
lintOutputWholeOutput(noName, file, b, err) ==
    IF Len(b) = 0
    THEN errToDiagnostics(err)
    ELSE LET dec == Unmarshal(b)
         IN  IF dec.err # NilError
             THEN errToDiagnostics(dec.err)
             ELSE Returns(MapIssues(noName, file, dec.result.Issues))

\* lintOutput that hands a decode error back to linter, which logs it with
\* Fatal
lintOutputDecodeFatal(noName, file, b, err) ==
    IF Len(b) = 0
    THEN errToDiagnostics(err)
    ELSE LET data == Split(b)
             dec == Unmarshal(data[1])
         IN  IF dec.err # NilError
             THEN Panics
             ELSE Returns(MapIssues(noName, file, dec.result.Issues))

\* handler.lint from the return of cmd.Output on
lintOutput(noName, file, b, err) ==
    IF Len(b) = 0
    THEN errToDiagnostics(err)
    ELSE LET data == Split(b)
             dec == Unmarshal(data[1])
         IN  IF dec.err # NilError
             THEN errToDiagnostics(dec.err)
             ELSE Returns(MapIssues(noName, file, dec.result.Issues))

\* ---------------------------------------------------------------- inputs
\* workspace roots and documents the client names
RootP == FileURI(<<"/", "p">>)
RootQ == FileURI(<<"/", "r">>)

\* a document below RootP, and one outside every root
DocA == FileURI(<<"/", "p", "/", "k", "/", "a">>)
DocB == FileURI(<<"/", "q", "/", "b">>)
Docs == {DocA, DocB}

\* params.WorkspaceFolders of an initialize request
FolderLists == {<<>>, <<RootP>>, <<RootQ, RootP>>}

\* a []string value; a nil slice and an empty slice differ in h.command == nil
Slice(elems) == [isNil |-> FALSE, elems |-> elems]
NilSlice == [isNil |-> TRUE, elems |-> <<>>]

DefaultCommand == Slice(<<"golangci-lint", "run", "--out-format", "json">>)
CustomCommand == Slice(<<"lint", "--format", "json">>)

\* params.InitializationOptions as the dynamic value the handler receives:
\* nil, or a map[string]any whose "command" entry is absent, a []any (what
\* a JSON decoder produces for an array) or a []string
InitOptions ==
    {[isMap |-> FALSE, command |-> "absent", value |-> NilSlice],
     [isMap |-> TRUE, command |-> "absent", value |-> NilSlice],
     [isMap |-> TRUE, command |-> "[]any", value |-> CustomCommand],
     [isMap |-> TRUE, command |-> "[]string", value |-> CustomCommand]}

\* issues the external tool reports: one for k/a, one for its sibling k/b
IssueA == Issue(<<"x">>, <<"unused var">>, <<"w", "a", "r", "n", "i", "n", "g">>,
                <<"k", "/", "a">>, Small(10), Small(3))
IssueB == Issue(<<"y">>, <<"shadow">>, <<"E", "r", "r", "o", "r">>,
                <<"k", "/", "b">>, Small(0), Small(0))

SeqsUpTo(S, n) == UNION {[1..k -> S] : k \in 0..n}

\* the structured results the tool prints, the tokens of its standard
\* output and what it writes to standard error when it fails
Results == {Result(<<IssueB, IssueA>>)}
Tokens == {NL, Text} \cup {JSON(r) : r \in Results}
Stdouts == SeqsUpTo(Tokens, MaxOut)
Stderrs == {<<"config error: no .golangci.yml">>}

\* what cmd.Output returns: (b, err). A process that did not start wrote
\* nothing.
Outcomes(stdouts) ==
    {[b |-> b, err |-> e] : b \in stdouts, e \in {NilError} \cup {ExitError(x) : x \in Stderrs}}
    \cup {[b |-> <<>>, err |-> ExecError]}

\* the outcomes of the cycles of a session: no output, output that is no
\* JSON, and one line with a result
ProcessOutcomes == Outcomes({<<>>, <<Text>>} \cup {<<JSON(r)>> : r \in Results})

\* ---------------------------------------------------------------- inputs of one cycle
\* Issues in one structured result.
MaxIssues == 3

\* a document in a directory whose path begins with the path of RootP
DocSibling == FileURI(<<"/", "p", "q", "/", "a">>)

\* a document whose path is the path of RootP itself
DocRoot == RootP
LintDocs == Docs \cup {DocSibling, DocRoot}

UpperChar(c) ==
    IF \E i \in 1..Len(LowerLetters) : LowerLetters[i] = c
    THEN UpperLetters[CHOOSE i \in 1..Len(LowerLetters) : LowerLetters[i] = c]
    ELSE c

RECURSIVE Casings(_)
\* every spelling of the word w in upper and lower case letters
Casings(w) ==
    IF w = <<>> THEN {<<>>}
    ELSE {<<c>> \o t : c \in {Head(w), UpperChar(Head(w))}, t \in Casings(Tail(w))}

\* the Severity strings of the tool's issues: the four names in every
\* casing, the empty string and strings that are no severity name
Severities ==
    Casings(sError) \cup Casings(sWarning) \cup Casings(sInformation)
    \cup Casings(sHint)
    \cup {<<>>, <<"f", "a", "t", "a", "l">>, <<"e", "r", "r", "o", "r", "s">>,
          <<"h", "i", "n">>, <<" ", "h", "i", "n", "t">>}

\* the Line and Column numbers of the tool's issues: 0, 1, 10, 65536, -1,
\* 2^32, 2^32 + 1 and the smallest int
Coordinates ==
    {Small(0), Small(1), Small(10), Int64(0, Uint32(1, 0)),
     Int64(-1, Uint32(Half - 1, Half - 1)),
     Int64(1, Small32(0)), Int64(1, Small32(1)), Int64(MinInt32, Small32(0))}

\* a second issue for k/a, and one named by the bare file name
IssueC == Issue(<<"z">>, <<"unchecked error">>, <<"H", "I", "N", "T">>,
                <<"k", "/", "a">>, Small(1), Small(1))
IssueD == Issue(<<"x">>, <<"unused var">>, <<"i", "n", "f", "o", "r", "m", "a", "t", "i", "o", "n">>,
                <<"a">>, Small(10), Small(3))

\* results of up to MaxIssues issues, and results of one issue for k/a with
\* every severity and with every pair of coordinates
LintResults ==
    {Result(is) : is \in SeqsUpTo({IssueA, IssueB, IssueC, IssueD}, MaxIssues)}
    \cup {Result(<<Issue(<<"x">>, <<"unused var">>, sev, <<"k", "/", "a">>,
                         Small(10), Small(3))>>) : sev \in Severities}
    \cup {Result(<<Issue(<<"x">>, <<"unused var">>, sWarning, <<"k", "/", "a">>,
                         line, column)>>) : line \in Coordinates, column \in Coordinates}

\* what cmd.Output returns in the cycle: every output of up to MaxOut
\* tokens, and one line with a result (the tool exits with a status other
\* than 0 when it reports issues)
LintOutcomes ==
    Outcomes(Stdouts)
    \cup {[b |-> <<JSON(r)>>, err |-> ExitError(x)] : r \in LintResults, x \in Stderrs}

\* ---------------------------------------------------------------- state
VARIABLES
    request,        \* the channel h.request: [closed, buf]
    command,        \* h.command
    rootURI,        \* h.rootURI
    rootDir,        \* h.rootDir
    noLinterName,   \* h.noLinterName
    evPc,           \* event thread: "ready", or "send" (blocked in h.request <- u)
    evURI,          \* the URI the blocked handler is sending
    wPc,            \* worker: "Idle", "Accepted", "Running", "Publishing", "Stopped"
    u,              \* linter's u, NoURI outside a cycle
    cmd,            \* lint's cmd and file, NoCmd outside a call of lint
    diagnostics,    \* linter's diagnostics, <<>> outside a cycle
    exitCause,      \* "none" while the process lives, else what ended it
    submitted,      \* URIs in the order the handlers began to send them
    accepted,       \* URIs in the order the worker received them
    outcome,        \* what cmd.Output returned in the cycle in progress
    published,      \* the notifications delivered to the transport
    running,        \* external processes started and not yet finished
    closeCalls,     \* close(h.request) statements executed
    events          \* document notifications the handlers were called with

vars == <<request, command, rootURI, rootDir, noLinterName, evPc, evURI, wPc, u, cmd,
          diagnostics, exitCause, submitted, accepted, outcome, published, running,
          closeCalls, events>>

session == <<command, rootURI, rootDir, noLinterName>>
eventVars == <<evPc, evURI>>
workerVars == <<wPc, u, cmd, diagnostics>>
history == <<submitted, accepted, outcome, published, running>>

NoURI == <<>>
NoCmd == [Path |-> "", Args |-> <<>>, Dir |-> <<>>, file |-> <<>>]

\* a (b, err) pair and its kind: whether b is empty, whether its first
\* segment decodes, and the kind of err; file is the relative filename of
\* the cycle the pair was returned in
OutcomeKind(b, err) ==
    [empty |-> Len(b) = 0,
     decodes |-> Len(b) > 0 /\ Unmarshal(Split(b)[1]).err = NilError,
     err |-> err.kind,
     b |-> b, error |-> err, file |-> <<>>]
NoOutcome ==
    [empty |-> TRUE, decodes |-> FALSE, err |-> "none",
     b |-> <<>>, error |-> NilError, file |-> <<>>]

alive == exitCause = "none"

\* NewServer (and the flag of src/main.go it is passed): the channel is made
\* with no buffer, the session fields keep their zero values and the worker
\* is started
Init ==
    /\ request = [closed |-> FALSE, buf |-> <<>>]
    /\ command = NilSlice
    /\ rootURI = NoURI
    /\ rootDir = NoURI
    /\ noLinterName \in BOOLEAN
    /\ evPc = "ready"
    /\ evURI = NoURI
    /\ wPc = "Idle"
    /\ u = NoURI
    /\ cmd = NoCmd
    /\ diagnostics = <<>>
    /\ exitCause = "none"
    /\ submitted = <<>>
    /\ accepted = <<>>
    /\ outcome = NoOutcome
    /\ published = <<>>
    /\ running = 0
    /\ closeCalls = 0
    /\ events = 0

\* Send on a channel made with make(chan protocol.DocumentURI, 1)
SendBuffered(uri) ==
    /\ submitted' = Append(submitted, uri)
    /\ IF request.closed
       THEN /\ exitCause' = "panic: send on closed channel"
            /\ UNCHANGED <<request, evPc, evURI>>
       ELSE IF Len(request.buf) < 1
            THEN /\ request' = [request EXCEPT !.buf = Append(@, uri)]
                 /\ UNCHANGED <<exitCause, evPc, evURI>>
            ELSE /\ evPc' = "send"
                 /\ evURI' = uri
                 /\ UNCHANGED <<exitCause, request>>
    /\ UNCHANGED <<session, workerVars, accepted, outcome, published, running,
                   closeCalls>>

\* Send that waits for a receiver whatever the state of the channel
SendBlocksWhenClosed(uri) ==
    /\ submitted' = Append(submitted, uri)
    /\ evPc' = "send"
    /\ evURI' = uri
    /\ UNCHANGED <<exitCause, request>>
    /\ UNCHANGED <<session, workerVars, accepted, outcome, published, running,
                   closeCalls>>

\* ---------------------------------------------------------------- event thread
\* the statement h.request <- uri of the four document handlers: a send on a
\* closed channel panics; with no free buffer slot the sender blocks until
\* the worker receives
Send(uri) ==
    /\ submitted' = Append(submitted, uri)
    /\ IF request.closed
       THEN /\ exitCause' = "panic: send on closed channel"
            /\ UNCHANGED <<request, evPc, evURI>>
       ELSE IF Len(request.buf) < RequestCap
            THEN /\ request' = [request EXCEPT !.buf = Append(@, uri)]
                 /\ UNCHANGED <<exitCause, evPc, evURI>>
            ELSE /\ evPc' = "send"
                 /\ evURI' = uri
                 /\ UNCHANGED <<exitCause, request>>
    /\ UNCHANGED <<session, workerVars, accepted, outcome, published, running,
                   closeCalls>>

\* a document notification reaches its handler: the event thread is free
\* (the handlers run one after the other) and the notification is counted
CanSubmit ==
    /\ alive
    /\ evPc = "ready"
    /\ events < MaxRequests
    /\ events' = events + 1

DidOpenTextDocument(uri) == CanSubmit /\ Send(uri)

DidSaveTextDocument(uri) == CanSubmit /\ Send(uri)

WillSaveTextDocument(uri) == CanSubmit /\ Send(uri)

DidChangeTextDocument(uri) == CanSubmit /\ Send(uri)

\* handler.DidChange of the second revision of the file: the notification is
\* answered with the error "unimplemented" and nothing is sent
DidChange(uri) ==
    /\ CanSubmit
    /\ UNCHANGED <<request, session, eventVars, workerVars, exitCause, history,
                   closeCalls>>

\* Shutdown that also ends the cycle in progress: the worker is stopped
\* where it is and the cycle's result is dropped
ShutdownCancels ==
    /\ alive
    /\ evPc = "ready"
    /\ closeCalls' = closeCalls + 1
    /\ IF request.closed
       THEN /\ exitCause' = "panic: close of closed channel"
            /\ UNCHANGED <<request, workerVars, running>>
       ELSE /\ request' = [request EXCEPT !.closed = TRUE]
            /\ wPc' = IF wPc \in {"Accepted", "Running", "Publishing"}
                      THEN "Stopped" ELSE wPc
            /\ running' = 0
            /\ UNCHANGED <<exitCause, u, cmd, diagnostics>>
    /\ UNCHANGED <<session, eventVars, submitted, accepted, outcome, published, events>>

\* handler.Shutdown: close(h.request); closing a closed channel panics
Shutdown ==
    /\ alive
    /\ evPc = "ready"
    /\ closeCalls' = closeCalls + 1
    /\ IF request.closed
       THEN /\ exitCause' = "panic: close of closed channel"
            /\ UNCHANGED request
       ELSE /\ request' = [request EXCEPT !.closed = TRUE]
            /\ UNCHANGED exitCause
    /\ UNCHANGED <<session, eventVars, workerVars, history, events>>

\* handler.Initialize
Initialize(folders, options) ==
    /\ alive
    /\ evPc = "ready"
    /\ IF Len(folders) = 0
       THEN /\ exitCause' = "panic: index out of range"
            /\ UNCHANGED <<rootURI, rootDir, command>>
       ELSE /\ rootURI' = folders[1]
            /\ rootDir' = folders[1]
            /\ IF ~options.isMap
               THEN /\ exitCause' = "panic: interface conversion"
                    /\ UNCHANGED command
               ELSE LET assigned == IF options.command = "[]string"
                                    THEN options.value ELSE command
                    IN  /\ command' = IF assigned.isNil THEN DefaultCommand ELSE assigned
                        /\ UNCHANGED exitCause
    /\ UNCHANGED <<request, noLinterName, eventVars, workerVars, history,
                   closeCalls, events>>

\* ---------------------------------------------------------------- worker
\* handler.lint up to cmd.Output: the argument vector, the working directory
\* and the relative filename. h.command[1:] panics on a command with no
\* element, Filename panics on a URI that is not a file URI, and the slice
\* expression panics when it starts beyond the end of the path
buildCmd(cmdSlice, root, docURI) ==
    LET path == Filename(docURI)
        dir == SplitDir(path)
        file == SplitFile(path)
    IN  IF docURI = NoURI \/ Head(docURI) # FileScheme
        THEN [panics |-> TRUE, cmd |-> NoCmd]
        ELSE IF Len(cmdSlice.elems) = 0 THEN [panics |-> TRUE, cmd |-> NoCmd]
        ELSE IF root = NoURI \/ Head(root) # FileScheme
             THEN [panics |-> TRUE, cmd |-> NoCmd]
        ELSE IF HasPrefix(path, Filename(root))
             THEN IF Len(Filename(root)) + 1 > Len(path)
                  THEN [panics |-> TRUE, cmd |-> NoCmd]
                  ELSE [panics |-> FALSE,
                        cmd |-> [Path |-> cmdSlice.elems[1],
                                 Args |-> Tail(cmdSlice.elems) \o <<dir>>,
                                 Dir |-> Filename(root),
                                 file |-> SubSeq(path, Len(Filename(root)) + 2, Len(path))]]
        ELSE [panics |-> FALSE,
              cmd |-> [Path |-> cmdSlice.elems[1],
                       Args |-> Tail(cmdSlice.elems) \o <<dir>>,
                       Dir |-> dir,
                       file |-> file]]

\* u, ok := <-h.request with ok true: the worker takes a buffered value, or
\* the value of the handler blocked in its send, which then returns
LinterRecv ==
    /\ alive
    /\ wPc = "Idle"
    /\ IF Len(request.buf) > 0
       THEN /\ u' = Head(request.buf)
            /\ accepted' = Append(accepted, Head(request.buf))
            /\ request' = [request EXCEPT !.buf = Tail(@)]
            /\ UNCHANGED eventVars
       ELSE /\ evPc = "send"
            /\ u' = evURI
            /\ accepted' = Append(accepted, evURI)
            /\ evPc' = "ready"
            /\ evURI' = NoURI
            /\ UNCHANGED request
    /\ wPc' = "Accepted"
    /\ UNCHANGED <<session, cmd, diagnostics, exitCause, submitted, outcome, published,
                   running, closeCalls, events>>

\* LinterStop with the ok of the receive ignored: the loop goes on with the
\* zero URI
LinterStopIgnoresClose ==
    /\ alive
    /\ wPc = "Idle"
    /\ request.closed
    /\ Len(request.buf) = 0
    /\ wPc' = "Accepted"
    /\ u' = NoURI
    /\ accepted' = Append(accepted, NoURI)
    /\ UNCHANGED <<request, session, eventVars, cmd, diagnostics, exitCause, submitted,
                   outcome, published, running, closeCalls, events>>

\* u, ok := <-h.request with ok false: the channel is closed and drained, the
\* loop breaks and the goroutine returns
LinterStop ==
    /\ alive
    /\ wPc = "Idle"
    /\ request.closed
    /\ Len(request.buf) = 0
    /\ wPc' = "Stopped"
    /\ UNCHANGED <<request, session, eventVars, u, cmd, diagnostics, exitCause, history,
                   closeCalls, events>>

\* LintStart that runs the process in a goroutine of its own and goes back
\* to the receive
LintStartAsync ==
    /\ alive
    /\ wPc = "Accepted"
    /\ LET built == buildCmd(command, rootDir, u)
       IN  IF built.panics
           THEN /\ exitCause' = "panic: slice bounds out of range"
                /\ UNCHANGED <<wPc, cmd, running>>
           ELSE /\ cmd' = built.cmd
                /\ wPc' = "Idle"
                /\ running' = running + 1
                /\ UNCHANGED exitCause
    /\ UNCHANGED <<request, session, eventVars, u, diagnostics, submitted, accepted,
                   outcome, published, closeCalls, events>>

\* h.lint(u) up to the start of the external process
LintStart ==
    /\ alive
    /\ wPc = "Accepted"
    /\ LET built == buildCmd(command, rootDir, u)
       IN  IF built.panics
           THEN /\ exitCause' = "panic: slice bounds out of range"
                /\ UNCHANGED <<wPc, cmd, running>>
           ELSE /\ cmd' = built.cmd
                /\ wPc' = "Running"
                /\ running' = running + 1
                /\ UNCHANGED exitCause
    /\ UNCHANGED <<request, session, eventVars, u, diagnostics, submitted, accepted,
                   outcome, published, closeCalls, events>>

\* cmd.Output returns (b, err) and h.lint maps it to diagnostics
ProcessExit(out) ==
    /\ alive
    /\ wPc = "Running"
    /\ running' = running - 1
    /\ outcome' = [OutcomeKind(out.b, out.err) EXCEPT !.file = cmd.file]
    /\ LET r == lintOutput(noLinterName, cmd.file, out.b, out.err)
       IN  IF r.panics
           THEN /\ exitCause' = "panic: nil pointer dereference"
                /\ UNCHANGED <<wPc, cmd, diagnostics>>
           ELSE /\ diagnostics' = r.diagnostics
                /\ cmd' = NoCmd
                /\ wPc' = "Publishing"
                /\ UNCHANGED exitCause
    /\ UNCHANGED <<request, session, eventVars, u, submitted, accepted, published,
                   closeCalls, events>>

\* NotifyDelivered that drops the result when a newer request is waiting
NotifyDeliveredSkipStale ==
    /\ alive
    /\ wPc = "Publishing"
    /\ published' = IF evPc = "send" THEN published
                    ELSE Append(published, [URI |-> u, Diagnostics |-> diagnostics])
    /\ wPc' = "Idle"
    /\ u' = NoURI
    /\ diagnostics' = <<>>
    /\ outcome' = NoOutcome
    /\ UNCHANGED <<request, session, eventVars, cmd, exitCause, submitted, accepted,
                   running, closeCalls, events>>

\* NotifyDelivered that does not publish twice in a row for one document
NotifyDeliveredDedup ==
    /\ alive
    /\ wPc = "Publishing"
    /\ published' = IF Len(published) > 0 /\ published[Len(published)].URI = u
                    THEN published
                    ELSE Append(published, [URI |-> u, Diagnostics |-> diagnostics])
    /\ wPc' = "Idle"
    /\ u' = NoURI
    /\ diagnostics' = <<>>
    /\ outcome' = NoOutcome
    /\ UNCHANGED <<request, session, eventVars, cmd, exitCause, submitted, accepted,
                   running, closeCalls, events>>

\* h.Conn.Notify returns nil: the notification is on the wire and the loop
\* goes back to the receive
NotifyDelivered ==
    /\ alive
    /\ wPc = "Publishing"
    /\ published' = Append(published, [URI |-> u, Diagnostics |-> diagnostics])
    /\ wPc' = "Idle"
    /\ u' = NoURI
    /\ diagnostics' = <<>>
    /\ outcome' = NoOutcome
    /\ UNCHANGED <<request, session, eventVars, cmd, exitCause, submitted, accepted,
                   running, closeCalls, events>>

\* NotifyFailed that logs the error and goes on with the loop
NotifyFailedContinue ==
    /\ alive
    /\ wPc = "Publishing"
    /\ wPc' = "Idle"
    /\ u' = NoURI
    /\ diagnostics' = <<>>
    /\ outcome' = NoOutcome
    /\ UNCHANGED <<request, session, eventVars, cmd, exitCause, submitted, accepted,
                   published, running, closeCalls, events>>

\* h.Conn.Notify returns an error: h.logger.Fatal logs it and exits the
\* process
NotifyFailed ==
    /\ alive
    /\ wPc = "Publishing"
    /\ exitCause' = "fatal: notify"
    /\ UNCHANGED <<request, session, eventVars, workerVars, history,
                   closeCalls, events>>

Worker ==
    \/ LinterRecv
    \/ LinterStop
    \/ LintStart
    \/ \E out \in ProcessOutcomes : ProcessExit(out)
    \/ NotifyDelivered
    \/ NotifyFailed

Next ==
    \/ \E folders \in FolderLists, options \in InitOptions : Initialize(folders, options)
    \/ \E uri \in Docs : DidOpenTextDocument(uri)
    \/ \E uri \in Docs : DidSaveTextDocument(uri)
    \/ \E uri \in Docs : WillSaveTextDocument(uri)
    \/ \E uri \in Docs : DidChangeTextDocument(uri)
    \/ \E uri \in Docs : DidChange(uri)
    \/ Shutdown
    \/ LinterRecv
    \/ LinterStop
    \/ LintStart
    \/ \E out \in ProcessOutcomes : ProcessExit(out)
    \/ NotifyDelivered
    \/ NotifyFailed

Spec == Init /\ [][Next]_vars

\* the Go scheduler runs a goroutine that can take a step; the external
\* process is taken to terminate
FairSpec == Spec /\ WF_vars(Worker)

\* One cycle of the worker on every input: the state the program is in when
\* Initialize has set the session and the worker has received the first
\* request, for every root and document.
LintInit ==
    /\ request = [closed |-> FALSE, buf |-> <<>>]
    /\ command = DefaultCommand
    /\ rootURI \in {RootP, RootQ}
    /\ rootDir = rootURI
    /\ noLinterName \in BOOLEAN
    /\ evPc = "ready"
    /\ evURI = NoURI
    /\ wPc = "Accepted"
    /\ u \in LintDocs
    /\ cmd = NoCmd
    /\ diagnostics = <<>>
    /\ exitCause = "none"
    /\ submitted = <<u>>
    /\ accepted = <<u>>
    /\ outcome = NoOutcome
    /\ published = <<>>
    /\ running = 0
    /\ closeCalls = 0
    /\ events = 1

LintNext ==
    \/ LintStart
    \/ \E out \in LintOutcomes : ProcessExit(out)
    \/ NotifyDelivered

LintSpec == LintInit /\ [][LintNext]_vars

\* ---------------------------------------------------------------- properties
URIs(notifications) == [i \in 1..Len(notifications) |-> notifications[i].URI]

IsPrefix(s, t) == Len(s) <= Len(t) /\ SubSeq(t, 1, Len(s)) = s

\* a cycle is in progress from the receive of its request to its publication
InCycle == wPc \in {"Accepted", "Running", "Publishing"}

\* C1: at most one external process runs at any time, and the worker
\* receives a request only when every cycle before it has finished and
\* published.
C1_OneCycleAtATime ==
    /\ running \in {0, 1}
    /\ [][/\ running' \in {0, 1}
          /\ accepted' # accepted =>
                /\ running = 0
                /\ Len(published) = Len(accepted)
                /\ ~InCycle]_vars

\* a second request waits in its send while the process of the first runs
C1_Witness == running = 1 /\ wPc = "Running" /\ evPc = "send" /\ Len(submitted) = 2

\* C2: the URIs of the notifications are, in order, the URIs the handlers
\* submitted: always a prefix of them, and all of them once the handlers have
\* returned and the worker is back at the receive.
C2_ArrivalOrder ==
    /\ IsPrefix(URIs(published), submitted)
    /\ (alive /\ evPc = "ready" /\ ~InCycle) => URIs(published) = submitted

\* two documents were submitted one after the other and published in that order
C2_Witness ==
    /\ submitted = <<DocB, DocA>>
    /\ URIs(published) = <<DocB, DocA>>

\* C3: the channel never holds a buffered request; a send completes in the
\* step in which the worker, at its receive, takes the request; a handler
\* in its send stays there while a cycle is in progress.
C3_Backpressure ==
    /\ request.buf = <<>>
    /\ [][/\ request'.buf = <<>>
          /\ (evPc = "send" /\ evPc' = "ready") =>
                /\ wPc = "Idle"
                /\ wPc' = "Accepted"
                /\ accepted' = Append(accepted, evURI)
          /\ (evPc = "send" /\ InCycle /\ alive') => evPc' = "send"]_vars

\* a handler is blocked in its send while the external process runs
C3_Witness == evPc = "send" /\ wPc = "Running" /\ running = 1

\* C4: once the channel is closed the worker receives no request, no handler
\* is ever blocked in a send, and a submission ends the handler at once (the
\* send panics).
C4_FailFastAfterClose ==
    /\ ~(request.closed /\ evPc = "send")
    /\ [][/\ ~(request'.closed /\ evPc' = "send")
          /\ request.closed => accepted' = accepted
          /\ (request.closed /\ submitted' # submitted) =>
                exitCause' = "panic: send on closed channel"]_vars

\* a document event arrived after Shutdown
C4_Witness ==
    /\ request.closed
    /\ exitCause = "panic: send on closed channel"
    /\ Len(submitted) = Len(accepted) + 1

\* C5: close(h.request) is executed at most once in every run.
C5_ClosedOnce == closeCalls <= 1

\* the outcomes of cmd.Output that are failures: the process failed and
\* wrote nothing, or the first segment of its output does not decode
ProcessFailure(o) == o.empty /\ o.err \in {"ExitError", "Error"}
ParseFailure(o) == ~o.empty /\ ~o.decodes

IsErrorDiagnostics(ds) ==
    /\ Len(ds) = 1
    /\ ds[1].Severity = ErrorDiagnosticSeverity
    /\ ds[1].Source = <<>>
    /\ ds[1].Range = ZeroRange

\* C6: when cmd.Output returns a process failure or a parse failure the
\* process lives on, the cycle goes to publication with one Error
\* diagnostic, and the publication sends it and takes the worker back to
\* the receive.
C6_FailureNotFatal ==
    [][/\ (wPc = "Running" /\ running' = 0
            /\ (ProcessFailure(outcome') \/ ParseFailure(outcome'))) =>
                /\ alive'
                /\ wPc' = "Publishing"
                /\ IsErrorDiagnostics(diagnostics')
       /\ (wPc = "Publishing" /\ published' # published) =>
                /\ published' = Append(published, [URI |-> u, Diagnostics |-> diagnostics])
                /\ wPc' = "Idle"]_vars

\* a failed cycle was published and the worker has taken the next request
C6_Witness ==
    /\ Len(published) = 1
    /\ IsErrorDiagnostics(published[1].Diagnostics)
    /\ Len(accepted) = 2
    /\ wPc = "Running"

\* C7: a cycle leaves publication for the receive only with its notification
\* sent; a failed Notify ends the process, after which no request is
\* received, no process is started and nothing is published.
C7_NotifyFailureFatal ==
    [][/\ (wPc = "Publishing" /\ wPc' # "Publishing") =>
                Len(published') = Len(published) + 1
       /\ (wPc = "Publishing" /\ wPc' = "Publishing" /\ exitCause' = "fatal: notify") =>
                UNCHANGED <<published, accepted, running>>
       /\ ~alive => UNCHANGED <<published, accepted, running, wPc>>]_vars

\* Notify failed while a handler was waiting in its send
C7_Witness ==
    /\ exitCause = "fatal: notify"
    /\ evPc = "send"
    /\ Len(published) < Len(accepted)

\* C8: the notifications are, one for one and in order, the requests the
\* worker received: never more than the requests, at most the one of the
\* cycle in progress missing, none missing when no cycle is in progress.
C8_OneNotificationPerRequest ==
    /\ IsPrefix(URIs(published), accepted)
    /\ Len(accepted) - Len(published) \in {0, 1}
    /\ ~InCycle => URIs(published) = accepted

\* two requests for one document were received and two notifications sent
C8_Witness ==
    /\ accepted = <<DocA, DocA>>
    /\ URIs(published) = <<DocA, DocA>>

\* C9: whatever cmd.Output returns, the cycle goes on to publication.
C9_EveryOutcomePublishes ==
    [][(wPc = "Running" /\ running' = 0) => (alive' /\ wPc' = "Publishing")]_vars

\* C10: a worker at its receive of a closed channel leaves it only for
\* Stopped; Stopped is never left, and in it no request is received and no
\* process started; while the process lives a closed channel leads to
\* Stopped.
C10_StoppedIsTerminal ==
    /\ [][/\ (request.closed /\ wPc = "Idle" /\ wPc' # "Idle") => wPc' = "Stopped"
          /\ wPc = "Stopped" =>
                /\ wPc' = "Stopped"
                /\ UNCHANGED <<accepted, running, published>>]_vars
    /\ (request.closed ~> (wPc = "Stopped" \/ ~alive))

\* the worker stopped after a cycle that was in progress at the close
C10_Witness ==
    /\ wPc = "Stopped"
    /\ Len(published) = 1
    /\ Len(accepted) = 1
    /\ alive

\* C11: every document open, save and change notification enqueues exactly
\* one lint request carrying the document's URI, so the handlers have begun
\* as many sends as notifications were received.
C11_EveryEventEnqueues == Len(submitted) = events

\* the first newline-delimited segment of a captured output
FirstSegment(b) ==
    LET idx == {i \in 1..Len(b) : b[i] = NL}
    IN  IF idx = {} THEN b
        ELSE SubSeq(b, 1, (CHOOSE k \in idx : \A j \in idx : k <= j) - 1)

\* an outcome whose output parses, and the issues of its result
Parsed(o) ==
    /\ Len(o.b) > 0
    /\ Len(FirstSegment(o.b)) = 1
    /\ FirstSegment(o.b)[1].t = "json"
IssuesOf(o) == FirstSegment(o.b)[1].v.Issues

\* the issues reported for file, in the order of the result
Matching(file, issues) ==
    LET Test(issue) == issue.Pos.Filename = file
    IN  SelectSeq(issues, Test)

\* the worker has the diagnostics of a cycle whose output parsed
HasParsed == wPc = "Publishing" /\ Parsed(outcome)

\* C12: for a result that parsed, the diagnostics of the cycle are the
\* images, one for one and in the order of the result, of exactly the issues
\* whose Pos.Filename equals the relative filename of the cycle, and that
\* sequence is what is published for the cycle's URI.
C12_FilteredImageInOrder ==
    [][/\ HasParsed' =>
            LET m == Matching(outcome'.file, IssuesOf(outcome'))
            IN  /\ Len(diagnostics') = Len(m)
                /\ \A i \in 1..Len(m) :
                       diagnostics'[i] = ToDiagnostic(noLinterName, m[i])
       /\ (wPc = "Running" /\ running' = 0 /\ Parsed(outcome')) =>
            /\ alive'
            /\ wPc' = "Publishing"
       /\ (wPc = "Publishing" /\ published' # published) =>
            published' = Append(published, [URI |-> u, Diagnostics |-> diagnostics])]_vars

\* the issues of linters x and z for k/a were published in that order, the
\* sibling's being left out
C12_Witness ==
    /\ Len(published) = 1
    /\ published[1].URI = DocA
    /\ Len(published[1].Diagnostics) = 2
    /\ published[1].Diagnostics[1].Source = <<"x">>
    /\ published[1].Diagnostics[2].Source = <<"z">>

\* a parsed outcome none of whose issues is reported for the cycle's file
NoMatch(o) == Parsed(o) /\ Matching(o.file, IssuesOf(o)) = <<>>

\* C13: a cycle whose result parsed and holds no issue for the file is no
\* error: the worker goes on to publish, lives, and the notification it
\* sends for the URI carries the empty sequence of diagnostics.
C13_NoMatchPublishesEmpty ==
    [][/\ (wPc = "Running" /\ running' = 0 /\ NoMatch(outcome')) =>
            /\ alive'
            /\ wPc' = "Publishing"
            /\ diagnostics' = <<>>
       /\ (wPc = "Publishing" /\ NoMatch(outcome) /\ alive' /\ wPc' # wPc) =>
            published' = Append(published, [URI |-> u, Diagnostics |-> <<>>])]_vars

\* the tool reported issues, none of them for the document, and the worker
\* is about to publish the empty sequence
C13_Witness ==
    /\ wPc = "Publishing"
    /\ NoMatch(outcome)
    /\ Len(IssuesOf(outcome)) = MaxIssues
    /\ diagnostics = <<>>
    /\ u = DocB

\* an outcome with nothing on standard output and a non-nil error, and the
\* text of that error: the captured standard error of a process that exited
\* with a status other than 0, the error's own text otherwise
EmptyWithError(o) == Len(o.b) = 0 /\ o.error.kind # "nil"
ErrorText(e) == IF e.kind = "ExitError" THEN e.Stderr ELSE e.text

\* C14: when the process wrote nothing to standard output and ended with a
\* non-nil error, the cycle has exactly one diagnostic: severity Error, no
\* source, the zero range, and the captured error text as its message.
C14_ErrorBecomesOneDiagnostic ==
    [][(wPc = "Running" /\ running' = 0 /\ EmptyWithError(outcome')) =>
            /\ alive'
            /\ wPc' = "Publishing"
            /\ Len(diagnostics') = 1
            /\ diagnostics'[1].Severity = ErrorDiagnosticSeverity
            /\ diagnostics'[1].Source = <<>>
            /\ diagnostics'[1].Range = ZeroRange
            /\ diagnostics'[1].Message = ErrorText(outcome'.error)]_vars

\* the process exited with a status other than 0 and nothing on standard
\* output, and what it wrote to standard error was published
C14_Witness ==
    /\ Len(published) = 1
    /\ Len(published[1].Diagnostics) = 1
    /\ published[1].Diagnostics[1].Message = <<"config error: no .golangci.yml">>
    /\ published[1].Diagnostics[1].Severity = ErrorDiagnosticSeverity

\* C15: what a non-empty output yields depends on its first newline-delimited
\* segment alone: when that segment decodes, the diagnostics are those of
\* its issues whatever follows it; when it does not, the cycle has exactly
\* one diagnostic, of severity Error, carrying the decoder's error.
C15_FirstSegmentDecides ==
    [][(wPc = "Running" /\ running' = 0 /\ Len(outcome'.b) > 0) =>
            LET seg == FirstSegment(outcome'.b)
            IN  /\ alive'
                /\ wPc' = "Publishing"
                /\ IF Len(seg) = 1 /\ seg[1].t = "json"
                   THEN LET m == Matching(outcome'.file, seg[1].v.Issues)
                        IN  diagnostics' =
                                [i \in 1..Len(m) |-> ToDiagnostic(noLinterName, m[i])]
                   ELSE /\ Len(diagnostics') = 1
                        /\ diagnostics'[1].Severity = ErrorDiagnosticSeverity
                        /\ diagnostics'[1].Source = <<>>
                        /\ diagnostics'[1].Message = DecodeError.text]_vars

\* the first line held a result and was followed by a line that is no JSON:
\* the issue of the first line is about to be published
C15_Witness ==
    /\ wPc = "Publishing"
    /\ Len(outcome.b) = 3
    /\ outcome.b[2] = NL
    /\ outcome.b[3] = Text
    /\ Len(diagnostics) = 1
    /\ diagnostics[1].Source = <<"x">>

\* the file of path lies in the directory root or below it
Contained(path, root) == HasPrefix(path, root \o <<"/">>)

\* C16: once the process is started, its working directory is the root and
\* the relative filename is the path without the root and the separator
\* when the document lies within the root; otherwise the working directory
\* is the directory of the document and the relative filename its base name.
C16_DirAndFile ==
    wPc = "Running" =>
        LET path == Filename(u)
            root == Filename(rootDir)
        IN  IF Contained(path, root)
            THEN /\ cmd.Dir = root
                 /\ cmd.file = SubSeq(path, Len(root) + 2, Len(path))
            ELSE /\ cmd.Dir = SplitDir(path)
                 /\ cmd.file = SplitFile(path)

\* Initialize has returned: command is the last field it assigns
Initialized == ~command.isNil

\* C17: once initialization has written the root URI, the root directory and
\* the command, no step changes them: no lint cycle, document handler,
\* Shutdown or later inbound call.
C17_SessionImmutable ==
    [][Initialized => UNCHANGED <<command, rootURI, rootDir>>]_vars

\* C18: when Initialize returns, the command is the list supplied as
\* "command" in the initialization options when one is supplied and the
\* baseline invocation when none is, and the root is the URI of the first
\* workspace folder.
C18_CommandAndRoot ==
    [][\A folders \in FolderLists, options \in InitOptions :
            (Initialize(folders, options) /\ alive') =>
                /\ command' = IF options.command = "absent"
                              THEN DefaultCommand ELSE options.value
                /\ rootURI' = folders[1]
                /\ rootDir' = folders[1]]_vars

\* the int v is at least 1, and the int that is one more than the uint32 p
AtLeastOne(v) == v.hi > 0 \/ (v.hi = 0 /\ v.lo # Small32(0))
Succ(p) ==
    IF p.l < Half - 1 THEN Int64(0, Uint32(p.h, p.l + 1))
    ELSE IF p.h < Half - 1 THEN Int64(0, Uint32(p.h + 1, 0))
    ELSE Int64(1, Small32(0))

\* the protocol position p is what the specification gives for the tool's value v
Translated(v, p) == IF AtLeastOne(v) THEN Succ(p) = v ELSE p = Small32(0)

\* C19: in every diagnostic of a parsed result, line and character are the
\* tool's line and column minus 1 when these are at least 1 and 0 otherwise,
\* never negative and never wrapped, and the range ends where it starts.
C19_CoordinateTranslation ==
    HasParsed =>
        LET m == Matching(outcome.file, IssuesOf(outcome))
        IN  Len(diagnostics) = Len(m) =>
                \A i \in 1..Len(m) :
                    /\ Translated(m[i].Pos.Line, diagnostics[i].Range.Start.Line)
                    /\ Translated(m[i].Pos.Column, diagnostics[i].Range.Start.Character)
                    /\ diagnostics[i].Range.End = diagnostics[i].Range.Start

\* s is the word w in some casing of its letters
SameLetters(s, w) ==
    /\ Len(s) = Len(w)
    /\ \A i \in 1..Len(w) : s[i] \in {w[i], UpperChar(w[i])}

\* the severity the specification gives for the tool's string s
SeverityOf(s) ==
    IF SameLetters(s, sError) THEN ErrorDiagnosticSeverity
    ELSE IF SameLetters(s, sInformation) THEN InformationDiagnosticSeverity
    ELSE IF SameLetters(s, sHint) THEN HintDiagnosticSeverity
    ELSE WarningDiagnosticSeverity

\* C20: the severity of every diagnostic of a parsed result is one of the
\* four protocol severities: the one named by the issue's severity string in
\* whatever casing, and Warning for every other string, the empty one
\* included.
C20_SeverityMapping ==
    HasParsed =>
        LET m == Matching(outcome.file, IssuesOf(outcome))
        IN  /\ Len(diagnostics) = Len(m)
            /\ \A i \in 1..Len(m) :
                   /\ diagnostics[i].Severity \in
                          {ErrorDiagnosticSeverity, WarningDiagnosticSeverity,
                           InformationDiagnosticSeverity, HintDiagnosticSeverity}
                   /\ diagnostics[i].Severity = SeverityOf(m[i].Severity)

\* an issue whose severity is spelled "InFoRmAtIoN" became a diagnostic of
\* severity Information
C20_Witness ==
    /\ HasParsed
    /\ Len(diagnostics) = 1
    /\ IssuesOf(outcome)[1].Severity =
           <<"I", "n", "F", "o", "R", "m", "A", "t", "I", "o", "N">>
    /\ diagnostics[1].Severity = InformationDiagnosticSeverity

\* the message of the diagnostic made from issue: the text after the name of
\* the linter and ": ", or the text alone when names are suppressed
MessageOf(issue) ==
    IF noLinterName THEN issue.Text
    ELSE issue.FromLinter \o <<": ">> \o issue.Text

\* C21: the diagnostic of every matching issue has the issue's linter as its
\* source and the issue's text, prefixed with the linter's name and ": "
\* unless names are suppressed, as its message; the suppression flag is the
\* one chosen at startup and no step changes it.
C21_SourceAndMessage ==
    [][/\ noLinterName' = noLinterName
       /\ HasParsed' =>
            LET m == Matching(outcome'.file, IssuesOf(outcome'))
            IN  /\ Len(diagnostics') = Len(m)
                /\ \A i \in 1..Len(m) :
                       /\ diagnostics'[i].Source = m[i].FromLinter
                       /\ diagnostics'[i].Message = MessageOf(m[i])]_vars

\* two requests for the document were published, each with the message
\* "x: unused var" from linter x
C21_Witness ==
    /\ ~noLinterName
    /\ Len(published) = 2
    /\ \A i \in 1..2 :
           /\ Len(published[i].Diagnostics) = 1
           /\ published[i].Diagnostics[1].Source = <<"x">>
           /\ published[i].Diagnostics[1].Message = <<"x", ": ", "unused var">>

\* C22: no cycle is begun before Initialize has written the command and the
\* root: whenever the worker holds a request it has received, the session
\* is initialized, also when a document event comes before Initialize.
C22_NoCycleBeforeInitialize ==
    wPc \in {"Accepted", "Running", "Publishing"} => Initialized

\* C23: a Shutdown that arrives during a cycle leaves the cycle as it is; the
\* cycle goes on to its publication on the closed queue as on an open one,
\* the worker stops only from the receive, with every request it received
\* published, and while the process lives a cycle in flight at the close is
\* followed by the stop.
C23_ShutdownDoesNotCancel ==
    /\ [][/\ (closeCalls' # closeCalls /\ InCycle) =>
                UNCHANGED <<wPc, u, cmd, diagnostics, running, accepted, published>>
          /\ (request.closed /\ wPc = "Running" /\ alive' /\ wPc' # wPc) =>
                wPc' = "Publishing"
          /\ (request.closed /\ wPc = "Publishing" /\ alive' /\ wPc' # wPc) =>
                /\ published' = Append(published, [URI |-> u, Diagnostics |-> diagnostics])
                /\ wPc' = "Idle"
          /\ (wPc' = "Stopped" /\ wPc # "Stopped") =>
                /\ wPc = "Idle"
                /\ request.closed
                /\ Len(published) = Len(accepted)]_vars
    /\ ((request.closed /\ InCycle) ~> (wPc = "Stopped" \/ ~alive))

\* the queue was closed during the cycle, whose process has ended since and
\* whose diagnostic is about to be published
C23_Witness ==
    /\ request.closed
    /\ wPc = "Publishing"
    /\ alive
    /\ Len(diagnostics) = 1
    /\ published = <<>>

\* C24: whenever the root's path is a prefix of the document's path, also
\* when the two are equal or the document lies in a sibling directory whose
\* name begins with the root's, the slice that strips the root and one
\* separator stays within the path, and the root, a separator and the
\* relative filename together are the document's path.
C24_RelativeFilename ==
    (wPc \in {"Accepted", "Running"}
        /\ HasPrefix(Filename(u), Filename(rootDir))) =>
            /\ exitCause # "panic: slice bounds out of range"
            /\ wPc = "Running" =>
                   Filename(rootDir) \o <<"/">> \o cmd.file = Filename(u)

==============================================================================
